---- MODULE Spec2Model ----
(***************************************************************************)
(* Memory-access classification (MemAccess.cpp) and the module driver of   *)
(* CustomFunctionPass (CustomFunctionPass.h), LLVM 4.0.0 passes.           *)
(*                                                                         *)
(* Spec     : one instruction I of a module with data layout DL; the       *)
(*            caller invokes the entry points of MemRead and MemWrite on   *)
(*            it in any order, any number of times.                        *)
(* PassSpec : one run of CustomFunctionPass::runOnModule over a module M.  *)
(***************************************************************************)
EXTENDS Integers, Sequences, FiniteSets, TLC

VARIABLES
    I,          \* the instruction being inspected
    DL,         \* I.getModule()->getDataLayout()
    constants,  \* the ConstantInts uniqued in I.getContext()
    called,     \* entry points invoked so far
    recalled,   \* entry points invoked more than once
    ret,        \* the descriptor each entry point returned last
    M,          \* the module handed to runOnModule: its function list
    pc,         \* position inside runOnModule
    it,         \* the range-for iterator over M (1-based)
    Changed,    \* the local `Changed` of runOnModule
    log,        \* the hook calls made so far, in order
    result      \* the value runOnModule returned

classVars == <<I, DL, constants, called, recalled, ret>>
passVars == <<M, pc, it, Changed, log, result>>
vars == <<I, DL, constants, called, recalled, ret, M, pc, it, Changed, log, result>>

----------------------------------------------------------------------------
(* 64-bit unsigned integers as four 16-bit limbs, least significant first. *)

U64(lo, l1, l2, hi) == <<lo, l1, l2, hi>>

Zero == U64(0, 0, 0, 0)

\* v reduced modulo 2^w, for 0 < w <= 64
TruncBits(v, w) ==
    LET L(i) == LET low == 16 * (i - 1)
                IN  IF low + 16 <= w THEN v[i]
                    ELSE IF low < w THEN v[i] % (2^(w - low))
                    ELSE 0
    IN  <<L(1), L(2), L(3), L(4)>>

\* width of the C++ type `unsigned`, the parameter type of getInt
UnsignedBits == 32

----------------------------------------------------------------------------
(* IR values, types and instructions.                                      *)

NullValue == [tag |-> "null", name |-> "", bits |-> 0, value |-> Zero, align |-> 0]

\* a non-constant value; align is what Value::getPointerAlignment reports for it
Operand(n, a) == [tag |-> "Value", name |-> n, bits |-> 0, value |-> Zero, align |-> a]

\* the uniqued ConstantInt of an integer type of `w` bits holding `v`
ConstantInt_get(w, v) ==
    [tag |-> "ConstantInt", name |-> "", bits |-> w, value |-> TruncBits(v, w), align |-> 0]

\* pointer operands: an argument of unknown alignment, a global aligned to 8
Pointers == {Operand("p", 0), Operand("g", 8)}

\* length operands of the memory intrinsics: a run-time value and an i64 constant
Lengths == {Operand("n", 0), ConstantInt_get(64, U64(16, 0, 0, 0))}

\* explicit alignments of loads, stores and memory intrinsics; 0 is "none given"
Alignments == {0, 4}

\* first-class types a load or store may move
ValueTypes == {"i8", "i64", "[256 x i8]", "[4294967296 x i8]"}

\* operand types of the atomic instructions (power-of-two integers within the
\* target's atomic size limit)
AtomicTypes == {"i8", "i32", "i64"}

NoType == "void"

\* DataLayout::getTypeStoreSize, a uint64_t
getTypeStoreSize(ty) ==
    CASE ty = "i8" -> U64(1, 0, 0, 0)
      [] ty = "i32" -> U64(4, 0, 0, 0)
      [] ty = "i64" -> U64(8, 0, 0, 0)
      [] ty = "[256 x i8]" -> U64(256, 0, 0, 0)
      [] ty = "[4294967296 x i8]" -> U64(0, 0, 1, 0)
      [] OTHER -> Zero

Inst(k, p, s, d, l, t, a) ==
    [kind |-> k, ptr |-> p, src |-> s, dst |-> d, len |-> l, ty |-> t, align |-> a]

NullInst == Inst("null", NullValue, NullValue, NullValue, NullValue, NoType, 0)

LoadInsts ==
    {Inst("Load", p, NullValue, NullValue, NullValue, t, a) :
        p \in Pointers, t \in ValueTypes, a \in Alignments}

StoreInsts ==
    {Inst("Store", p, NullValue, NullValue, NullValue, t, a) :
        p \in Pointers, t \in ValueTypes, a \in Alignments}

MemTransferInsts ==
    UNION {{Inst(k, NullValue, s, d, l, NoType, a) :
                s \in Pointers, d \in Pointers, l \in Lengths, a \in Alignments} :
           k \in {"MemCpy", "MemMove"}}

MemSetInsts ==
    {Inst("MemSet", NullValue, NullValue, d, l, NoType, a) :
        d \in Pointers, l \in Lengths, a \in Alignments}

AtomicCmpXchgInsts ==
    {Inst("AtomicCmpXchg", p, NullValue, NullValue, NullValue, t, 0) :
        p \in Pointers, t \in AtomicTypes}

AtomicRMWInsts ==
    {Inst("AtomicRMW", p, NullValue, NullValue, NullValue, t, 0) :
        p \in Pointers, t \in AtomicTypes}

\* instructions that touch no memory through these classifiers
OtherInsts ==
    {Inst(k, NullValue, NullValue, NullValue, NullValue, NoType, 0) :
        k \in {"Br", "Call", "Add"}}

Instructions ==
    LoadInsts \cup StoreInsts \cup MemTransferInsts \cup MemSetInsts
        \cup AtomicCmpXchgInsts \cup AtomicRMWInsts \cup OtherInsts

\* widths DataLayout::getLargestLegalIntType can report ("n8", "n8:16", "n32", "n32:64")
DataLayouts == {[LargestLegalIntBits |-> w] : w \in {8, 16, 32, 64}}

\* the ConstantInts already uniqued because I uses them as operands
OperandConstants(i) == {v \in {i.ptr, i.src, i.dst, i.len} : v.tag = "ConstantInt"}

\* dyn_cast<T>(&I) succeeds
isa_LoadInst(i) == i.kind = "Load"
isa_StoreInst(i) == i.kind = "Store"
isa_MemTransferInst(i) == i.kind \in {"MemCpy", "MemMove"}
isa_MemIntrinsic(i) == i.kind \in {"MemCpy", "MemMove", "MemSet"}
isa_AtomicCmpXchgInst(i) == i.kind = "AtomicCmpXchg"
isa_AtomicRMWInst(i) == i.kind = "AtomicRMW"

----------------------------------------------------------------------------
(* MemAccess: the shared descriptor.                                       *)

MemAccess(i, p, l, a, r) ==
    [valid |-> TRUE, inst |-> i, ptr |-> p, len |-> l, align |-> a, isRead |-> r]

\* MemAccess(): the absent descriptor
MemAccessDefault ==
    [valid |-> FALSE, inst |-> NullInst, ptr |-> NullValue, len |-> NullValue,
     align |-> 0, isRead |-> FALSE]

\* getInt(I, N): N narrows to `unsigned`, then to the largest legal integer type
getInt(dl, N) ==
    ConstantInt_get(dl.LargestLegalIntBits, TruncBits(N, UnsignedBits))

----------------------------------------------------------------------------
(* MemRead                                                                 *)

MemRead_LoadInst(dl, LI) ==
    MemAccess(LI, LI.ptr, getInt(dl, getTypeStoreSize(LI.ty)), LI.align, TRUE)

MemRead_MemTransferInst(dl, MT) ==
    MemAccess(MT, MT.src, MT.len, MT.align, TRUE)

MemRead_AtomicCmpXchgInst(dl, CX) ==
    MemAccess(CX, CX.ptr, getInt(dl, getTypeStoreSize(CX.ty)), CX.ptr.align, TRUE)

MemRead_AtomicRMWInst(dl, RMW) ==
    MemAccess(RMW, RMW.ptr, getInt(dl, getTypeStoreSize(RMW.ty)), RMW.ptr.align, TRUE)

\* variant: the read dispatch tests MemIntrinsic where it should test MemTransferInst
MemRead_Create_anyIntrinsic(dl, i) ==
    IF isa_LoadInst(i) THEN MemRead_LoadInst(dl, i)
    ELSE IF isa_MemIntrinsic(i) THEN MemRead_MemTransferInst(dl, i)
    ELSE IF isa_AtomicCmpXchgInst(i) THEN MemRead_AtomicCmpXchgInst(dl, i)
    ELSE IF isa_AtomicRMWInst(i) THEN MemRead_AtomicRMWInst(dl, i)
    ELSE MemAccessDefault

\* variant: the read dispatch tests CallInst, the base class of the intrinsics
MemRead_Create_anyCall(dl, i) ==
    IF isa_LoadInst(i) THEN MemRead_LoadInst(dl, i)
    ELSE IF isa_MemTransferInst(i) \/ i.kind = "Call" THEN MemRead_MemTransferInst(dl, i)
    ELSE IF isa_AtomicCmpXchgInst(i) THEN MemRead_AtomicCmpXchgInst(dl, i)
    ELSE IF isa_AtomicRMWInst(i) THEN MemRead_AtomicRMWInst(dl, i)
    ELSE MemAccessDefault

MemRead_Create(dl, i) ==
    IF isa_LoadInst(i) THEN MemRead_LoadInst(dl, i)
    ELSE IF isa_MemTransferInst(i) THEN MemRead_MemTransferInst(dl, i)
    ELSE IF isa_AtomicCmpXchgInst(i) THEN MemRead_AtomicCmpXchgInst(dl, i)
    ELSE IF isa_AtomicRMWInst(i) THEN MemRead_AtomicRMWInst(dl, i)
    ELSE MemAccessDefault

MemRead_Instruction(dl, i) ==
    LET this == MemAccessDefault
    IN  IF isa_LoadInst(i) THEN MemRead_LoadInst(dl, i)
        ELSE IF isa_MemTransferInst(i) THEN MemRead_MemTransferInst(dl, i)
        ELSE IF isa_AtomicCmpXchgInst(i) THEN MemRead_AtomicCmpXchgInst(dl, i)
        ELSE IF isa_AtomicRMWInst(i) THEN MemRead_AtomicRMWInst(dl, i)
        ELSE this

----------------------------------------------------------------------------
(* MemWrite                                                                *)

MemWrite_StoreInst(dl, SI) ==
    MemAccess(SI, SI.ptr, getInt(dl, getTypeStoreSize(SI.ty)), SI.align, FALSE)

\* variant: the write descriptor of an intrinsic takes the source pointer
MemWrite_MemIntrinsic_rawSource(dl, MI) ==
    MemAccess(MI, MI.src, MI.len, MI.align, FALSE)

MemWrite_MemIntrinsic(dl, MI) ==
    MemAccess(MI, MI.dst, MI.len, MI.align, FALSE)

\* variant: the write descriptor of a cmpxchg takes the instruction's explicit
\* alignment (none) where it should take the pointer's
MemWrite_AtomicCmpXchgInst_noAlign(dl, CX) ==
    MemAccess(CX, CX.ptr, getInt(dl, getTypeStoreSize(CX.ty)), CX.align, FALSE)

MemWrite_AtomicCmpXchgInst(dl, CX) ==
    MemAccess(CX, CX.ptr, getInt(dl, getTypeStoreSize(CX.ty)), CX.ptr.align, FALSE)

MemWrite_AtomicRMWInst(dl, RMW) ==
    MemAccess(RMW, RMW.ptr, getInt(dl, getTypeStoreSize(RMW.ty)), RMW.ptr.align, FALSE)

MemWrite_Create(dl, i) ==
    IF isa_StoreInst(i) THEN MemWrite_StoreInst(dl, i)
    ELSE IF isa_MemIntrinsic(i) THEN MemWrite_MemIntrinsic(dl, i)
    ELSE IF isa_AtomicCmpXchgInst(i) THEN MemWrite_AtomicCmpXchgInst(dl, i)
    ELSE IF isa_AtomicRMWInst(i) THEN MemWrite_AtomicRMWInst(dl, i)
    ELSE MemAccessDefault

\* variant: the generic constructor lacks the AtomicRMWInst branch
MemWrite_Instruction_noRMW(dl, i) ==
    LET this == MemAccessDefault
    IN  IF isa_StoreInst(i) THEN MemWrite_StoreInst(dl, i)
        ELSE IF isa_MemIntrinsic(i) THEN MemWrite_MemIntrinsic(dl, i)
        ELSE IF isa_AtomicCmpXchgInst(i) THEN MemWrite_AtomicCmpXchgInst(dl, i)
        ELSE this

MemWrite_Instruction(dl, i) ==
    LET this == MemAccessDefault
    IN  IF isa_StoreInst(i) THEN MemWrite_StoreInst(dl, i)
        ELSE IF isa_MemIntrinsic(i) THEN MemWrite_MemIntrinsic(dl, i)
        ELSE IF isa_AtomicCmpXchgInst(i) THEN MemWrite_AtomicCmpXchgInst(dl, i)
        ELSE IF isa_AtomicRMWInst(i) THEN MemWrite_AtomicRMWInst(dl, i)
        ELSE this

----------------------------------------------------------------------------
(* The caller: entry points invoked on I.                                  *)

ReadEntries == {"MemRead::Create", "MemRead(Instruction&)", "MemRead(Kind&)"}
WriteEntries == {"MemWrite::Create", "MemWrite(Instruction&)", "MemWrite(Kind&)"}
Entries == ReadEntries \cup WriteEntries

\* a call returns d; a ConstantInt it materialised stays uniqued in the context
Return(e, d) ==
    /\ ret' = [ret EXCEPT ![e] = d]
    /\ called' = called \cup {e}
    /\ recalled' = IF e \in called THEN recalled \cup {e} ELSE recalled
    /\ constants' = IF d.len.tag = "ConstantInt" THEN constants \cup {d.len}
                    ELSE constants
    /\ UNCHANGED <<I, DL>>
    /\ UNCHANGED passVars

\* variant: the factory writes a missing alignment back into the instruction
CallMemReadCreate_setAlignment ==
    /\ ret' = [ret EXCEPT !["MemRead::Create"] = MemRead_Create(DL, I)]
    /\ called' = called \cup {"MemRead::Create"}
    /\ recalled' = IF "MemRead::Create" \in called
                   THEN recalled \cup {"MemRead::Create"} ELSE recalled
    /\ constants' = IF MemRead_Create(DL, I).len.tag = "ConstantInt"
                    THEN constants \cup {MemRead_Create(DL, I).len} ELSE constants
    /\ I' = IF isa_LoadInst(I) /\ I.align = 0 THEN [I EXCEPT !.align = 1] ELSE I
    /\ UNCHANGED DL
    /\ UNCHANGED passVars

CallMemReadCreate == Return("MemRead::Create", MemRead_Create(DL, I))

CallMemReadInstruction == Return("MemRead(Instruction&)", MemRead_Instruction(DL, I))

\* the caller has branched on the kind itself and picks the matching overload
CallMemReadKind ==
    \/ /\ isa_LoadInst(I)
       /\ Return("MemRead(Kind&)", MemRead_LoadInst(DL, I))
    \/ /\ isa_MemTransferInst(I)
       /\ Return("MemRead(Kind&)", MemRead_MemTransferInst(DL, I))
    \/ /\ isa_AtomicCmpXchgInst(I)
       /\ Return("MemRead(Kind&)", MemRead_AtomicCmpXchgInst(DL, I))
    \/ /\ isa_AtomicRMWInst(I)
       /\ Return("MemRead(Kind&)", MemRead_AtomicRMWInst(DL, I))

CallMemWriteCreate == Return("MemWrite::Create", MemWrite_Create(DL, I))

CallMemWriteInstruction == Return("MemWrite(Instruction&)", MemWrite_Instruction(DL, I))

CallMemWriteKind ==
    \/ /\ isa_StoreInst(I)
       /\ Return("MemWrite(Kind&)", MemWrite_StoreInst(DL, I))
    \/ /\ isa_MemIntrinsic(I)
       /\ Return("MemWrite(Kind&)", MemWrite_MemIntrinsic(DL, I))
    \/ /\ isa_AtomicCmpXchgInst(I)
       /\ Return("MemWrite(Kind&)", MemWrite_AtomicCmpXchgInst(DL, I))
    \/ /\ isa_AtomicRMWInst(I)
       /\ Return("MemWrite(Kind&)", MemWrite_AtomicRMWInst(DL, I))

----------------------------------------------------------------------------
(* CustomFunctionPass::runOnModule                                         *)

MaxFuncs == 3

Functions == [isDeclaration : BOOLEAN, noInstrument : BOOLEAN]

Modules == UNION {[1..n -> Functions] : n \in 0..MaxFuncs}

\* isNoInstrument(&F), declared in Common.h
isNoInstrument(F) == F.noInstrument

\* variant: the no-instrument mark is not consulted
shouldInstrument_declOnly(F) ==
    IF F.isDeclaration THEN FALSE ELSE TRUE

shouldInstrument(F) ==
    IF F.isDeclaration THEN FALSE
    ELSE IF isNoInstrument(F) THEN FALSE
    ELSE TRUE

HookCall(h, f, r) == [hook |-> h, fn |-> f, ret |-> r]

\* bool Changed = doInitialization(M);
DoInitialization ==
    /\ pc = "start"
    /\ \E r \in BOOLEAN :
          /\ Changed' = r
          /\ log' = Append(log, HookCall("doInitialization", 0, r))
    /\ it' = 1
    /\ pc' = "loop"
    /\ UNCHANGED <<M, result>>
    /\ UNCHANGED classVars

\* variant: Changed = Changed || runOnFunction(F), which skips the call once
\* Changed is set
OrAssignRunOnFunction_shortCircuit ==
    IF Changed
    THEN UNCHANGED <<Changed, log>>
    ELSE \E r \in BOOLEAN :
            /\ Changed' = r
            /\ log' = Append(log, HookCall("runOnFunction", it, r))

\* Changed |= runOnFunction(F);
OrAssignRunOnFunction ==
    \E r \in BOOLEAN :
        /\ Changed' = (Changed \/ r)
        /\ log' = Append(log, HookCall("runOnFunction", it, r))

\* one iteration of for (Function &F : M)
ForFunction ==
    /\ pc = "loop"
    /\ it <= Len(M)
    /\ IF shouldInstrument(M[it])
       THEN OrAssignRunOnFunction
       ELSE UNCHANGED <<Changed, log>>
    /\ it' = it + 1
    /\ UNCHANGED <<M, pc, result>>
    /\ UNCHANGED classVars

\* the loop is exhausted: Changed |= doFinalization(M);
DoFinalization ==
    /\ pc = "loop"
    /\ it > Len(M)
    /\ \E r \in BOOLEAN :
          /\ Changed' = (Changed \/ r)
          /\ log' = Append(log, HookCall("doFinalization", 0, r))
    /\ pc' = "return"
    /\ UNCHANGED <<M, it, result>>
    /\ UNCHANGED classVars

\* return Changed;
ReturnChanged ==
    /\ pc = "return"
    /\ result' = Changed
    /\ pc' = "done"
    /\ UNCHANGED <<M, it, Changed, log>>
    /\ UNCHANGED classVars

ClassIdle ==
    /\ I = NullInst
    /\ DL = [LargestLegalIntBits |-> 64]
    /\ constants = {}
    /\ called = {}
    /\ recalled = {}
    /\ ret = [e \in Entries |-> MemAccessDefault]

PassInit ==
    /\ M \in Modules
    /\ pc = "start"
    /\ it = 1
    /\ Changed = FALSE
    /\ log = <<>>
    /\ result = FALSE
    /\ ClassIdle

PassNext ==
    \/ DoInitialization
    \/ ForFunction
    \/ DoFinalization
    \/ ReturnChanged

PassSpec == PassInit /\ [][PassNext]_vars

PassIdle ==
    /\ M = <<>>
    /\ pc = "idle"
    /\ it = 1
    /\ Changed = FALSE
    /\ log = <<>>
    /\ result = FALSE

Init ==
    /\ I \in Instructions
    /\ DL \in DataLayouts
    /\ constants = OperandConstants(I)
    /\ called = {}
    /\ recalled = {}
    /\ ret = [e \in Entries |-> MemAccessDefault]
    /\ PassIdle

Next ==
    \/ CallMemReadCreate
    \/ CallMemReadInstruction
    \/ CallMemReadKind
    \/ CallMemWriteCreate
    \/ CallMemWriteInstruction
    \/ CallMemWriteKind

Spec == Init /\ [][Next]_vars

----------------------------------------------------------------------------
(* Properties of the classifiers (checked under Spec).                     *)

IsAtomic(i) == isa_AtomicCmpXchgInst(i) \/ isa_AtomicRMWInst(i)

\* d.byteLength is an integer constant whose value is the store size of ty
IsConstantSizeOf(d, ty) ==
    /\ d.len.tag = "ConstantInt"
    /\ d.len.value = getTypeStoreSize(ty)

BothCreated == {"MemRead::Create", "MemWrite::Create"} \subseteq called

BothPopulated == ret["MemRead::Create"].valid /\ ret["MemWrite::Create"].valid

\* C2 as stated: for every instruction that is neither an atomic compare-exchange
\* nor an atomic read-modify-write, at most one of MemRead::Create and
\* MemWrite::Create returns a populated descriptor.
C2_OnlyAtomicsBoth ==
    (BothCreated /\ ~IsAtomic(I)) => ~BothPopulated

\* C2 amended: both factories return a populated descriptor exactly for atomic
\* compare-exchange, atomic read-modify-write and bulk memory-transfer
\* (copy/move) instructions; for a load, a store, a memory-set or an
\* unrecognized kind at most one of them does.
C2_DualRoleKinds ==
    BothCreated => (BothPopulated <=> (IsAtomic(I) \/ isa_MemTransferInst(I)))

C2_Witness ==
    /\ BothCreated
    /\ I.kind = "MemCpy"
    /\ BothPopulated

\* C3: for an instruction of no recognized kind every entry point returns the
\* absent descriptor; for any instruction a call ends either absent or populated
\* with I's own data, and the generic entry points can always be called.
C3_UnrecognizedAbsent ==
    /\ I \in OtherInsts => \A e \in called : ret[e] = MemAccessDefault
    /\ \A e \in called :
          \/ ret[e] = MemAccessDefault
          \/ /\ ret[e].valid
             /\ ret[e].inst = I
             /\ ret[e].ptr # NullValue
             /\ ret[e].len # NullValue
    /\ ENABLED CallMemReadCreate
    /\ ENABLED CallMemReadInstruction
    /\ ENABLED CallMemWriteCreate
    /\ ENABLED CallMemWriteInstruction

C3_Witness ==
    /\ I.kind = "Call"
    /\ {"MemRead::Create", "MemRead(Instruction&)",
        "MemWrite::Create", "MemWrite(Instruction&)"} \subseteq called
    /\ ~ret["MemRead::Create"].valid
    /\ ~ret["MemWrite::Create"].valid

\* C4: a plain load of a type of byte size N from p with alignment A is read as
\* {isRead, baseAddress p, byteLength the constant N, alignment A}; a plain store
\* is written as {~isRead, baseAddress p, byteLength the constant N, alignment A},
\* the alignment forwarded unchanged (0 when none is given).
C4_LoadStoreDescriptor ==
    /\ isa_LoadInst(I) =>
          \A e \in called \cap ReadEntries :
              /\ ret[e].valid
              /\ ret[e].isRead
              /\ ret[e].ptr = I.ptr
              /\ IsConstantSizeOf(ret[e], I.ty)
              /\ ret[e].align = I.align
    /\ isa_StoreInst(I) =>
          \A e \in called \cap WriteEntries :
              /\ ret[e].valid
              /\ ~ret[e].isRead
              /\ ret[e].ptr = I.ptr
              /\ IsConstantSizeOf(ret[e], I.ty)
              /\ ret[e].align = I.align

\* C5: a bulk memory transfer with source S, destination D, length operand L and
\* alignment A is read as {isRead, S, L itself, A} and written as {~isRead, D, L
\* itself, A}; no constant is materialised for the length.
C5_TransferDescriptor ==
    isa_MemTransferInst(I) =>
        /\ \A e \in called \cap ReadEntries :
              ret[e] = [valid |-> TRUE, inst |-> I, ptr |-> I.src, len |-> I.len,
                        align |-> I.align, isRead |-> TRUE]
        /\ \A e \in called \cap WriteEntries :
              ret[e] = [valid |-> TRUE, inst |-> I, ptr |-> I.dst, len |-> I.len,
                        align |-> I.align, isRead |-> FALSE]
        /\ constants = OperandConstants(I)

C5_Witness ==
    /\ I.kind = "MemMove"
    /\ I.src # I.dst
    /\ I.len.tag = "Value"
    /\ I.align = 4
    /\ BothCreated
    /\ ret["MemRead::Create"].len = I.len
    /\ ret["MemWrite::Create"].ptr = I.dst

C8_MemSetWriteOnly ==
    I.kind = "MemSet" =>
        /\ \A e \in called \cap WriteEntries :
              ret[e] = [valid |-> TRUE, inst |-> I, ptr |-> I.dst, len |-> I.len,
                        align |-> I.align, isRead |-> FALSE]
        /\ \A e \in called \cap ReadEntries : ret[e] = MemAccessDefault
        /\ ~ENABLED CallMemReadKind

C8_Witness ==
    /\ I.kind = "MemSet"
    /\ BothCreated
    /\ ret["MemWrite::Create"].valid
    /\ ~ret["MemRead::Create"].valid

\* C10: for each classifier the factory, the generic constructor and (for a
\* recognized kind) the kind-specific constructor return the same descriptor, so
\* the two generic forms are absent for the same instructions.
C10_EntryPointsAgree ==
    /\ \A e1 \in called \cap ReadEntries : \A e2 \in called \cap ReadEntries :
          ret[e1] = ret[e2]
    /\ \A e1 \in called \cap WriteEntries : \A e2 \in called \cap WriteEntries :
          ret[e1] = ret[e2]
    /\ (ENABLED CallMemReadKind) <=> MemRead_Create(DL, I).valid
    /\ (ENABLED CallMemWriteKind) <=> MemWrite_Create(DL, I).valid

C10_Witness ==
    /\ called = Entries
    /\ isa_AtomicRMWInst(I)
    /\ ret["MemWrite(Instruction&)"].valid
    /\ ret["MemWrite(Instruction&)"] = ret["MemWrite(Kind&)"]

----------------------------------------------------------------------------
(* Properties of runOnModule (checked under PassSpec).                     *)

\* a function that is neither declaration-only nor marked no-instrument
Eligible(F) == ~F.isDeclaration /\ ~F.noInstrument

\* the number of runOnFunction calls made on the i-th function of M
Visits(i) ==
    Cardinality({k \in 1..Len(log) : log[k].hook = "runOnFunction" /\ log[k].fn = i})

Finished == pc \in {"return", "done"}

\* C7: runOnFunction is never invoked on a declaration or a no-instrument
\* function, at most once on any function, and when runOnModule is through it has
\* been invoked exactly once on every eligible function.
C7_EligibleOnce ==
    \A i \in 1..Len(M) :
        /\ ~Eligible(M[i]) => Visits(i) = 0
        /\ Visits(i) <= 1
        /\ (Finished /\ Eligible(M[i])) => Visits(i) = 1

C7_Witness ==
    /\ pc = "done"
    /\ \E i, j, k \in 1..Len(M) :
          /\ Eligible(M[i]) /\ Visits(i) = 1
          /\ M[j].isDeclaration /\ Visits(j) = 0
          /\ ~M[k].isDeclaration /\ M[k].noInstrument /\ Visits(k) = 0

\* the indices of the eligible functions, in module order
EligibleOrder ==
    SelectSeq([i \in 1..Len(M) |-> i], LAMBDA i : Eligible(M[i]))

\* C9: the hook calls of a run are doInitialization, then runOnFunction on the
\* eligible functions in module order, then doFinalization, none left out
\* whatever the earlier hooks returned; the returned flag is the disjunction of
\* what the hooks returned.
C9_HookOrder ==
    /\ \A k \in 1..Len(log) :
          /\ (log[k].hook = "doInitialization") <=> (k = 1)
          /\ (log[k].hook = "doFinalization") => (k = Len(log) /\ Finished)
          /\ (log[k].hook = "runOnFunction") => log[k].fn < it
    /\ \A k \in 1..(Len(log) - 1) :
          (log[k].hook = "runOnFunction" /\ log[k + 1].hook = "runOnFunction")
              => log[k].fn < log[k + 1].fn
    /\ Finished =>
          /\ Len(log) = Len(EligibleOrder) + 2
          /\ log[Len(log)].hook = "doFinalization"
          /\ \A k \in 1..Len(EligibleOrder) :
                /\ log[k + 1].hook = "runOnFunction"
                /\ log[k + 1].fn = EligibleOrder[k]
          /\ Changed = (\E k \in 1..Len(log) : log[k].ret)
    /\ pc = "done" => result = (\E k \in 1..Len(log) : log[k].ret)

C9_Witness ==
    /\ pc = "done"
    /\ Len(EligibleOrder) >= 2
    /\ Len(EligibleOrder) < Len(M)
    /\ log[1].ret
    /\ ~log[Len(log)].ret
    /\ result

====
